---- MODULE Spec2Model ----
(***************************************************************************)
(* Two mesh-generating scripts of the repository:                          *)
(*   src/tempCodeRunnerFile.py  the extruded heart      (script = "heart") *)
(*   src/test.py                the SARA nameplate  (script = "nameplate") *)
(* Each is a straight-line pipeline: build `vertices`, build `faces`,      *)
(* copy vertices[face[j]] into the mesh, save.  One action per loop        *)
(* iteration (or per append where a loop body appends twice in the heart   *)
(* script), one per loop exit.                                             *)
(*                                                                         *)
(* Coordinates.  The outline points x[i], y[i] of the heart and the letter *)
(* and stand outlines are trigonometric; a vertex built from one carries   *)
(* the sample it was built from (pt, and letter for the glyphs) in place   *)
(* of the numbers.  Exact coordinates are kept where the code uses plain   *)
(* arithmetic: the heart's z is kept doubled (z2 = 2*z, so THICKNESS/2 is  *)
(* THICKNESS), the plate's x and y are kept doubled (x2, y2).              *)
(***************************************************************************)
EXTENDS Integers, Sequences, FiniteSets, TLC

VARIABLES
    script,          \* which of the two scripts is running
    pc,              \* position in the script
    i,               \* the running loop index
    NUM_POINTS,      \* heart: tempCodeRunnerFile.py:7
    THICKNESS,       \* heart: tempCodeRunnerFile.py:6
    PLATE_WIDTH,     \* nameplate: test.py:6
    PLATE_HEIGHT,    \* nameplate: test.py:7
    PLATE_THICKNESS, \* nameplate: test.py:8
    LETTER_HEIGHT,   \* nameplate: test.py:9
    vertices,        \* the vertex list
    letter_verts,    \* nameplate: test.py:72
    stand_verts,     \* nameplate: test.py:99
    plate_count,     \* nameplate: test.py:69
    letter_count,    \* nameplate: test.py:96
    stand_count,     \* nameplate: test.py:111
    faces,           \* the face list
    mesh             \* the vectors of the mesh being filled

vars == <<script, pc, i, NUM_POINTS, THICKNESS, PLATE_WIDTH, PLATE_HEIGHT,
          PLATE_THICKNESS, LETTER_HEIGHT, vertices, letter_verts, stand_verts,
          plate_count, letter_count, stand_count, faces, mesh>>

params == <<script, NUM_POINTS, THICKNESS, PLATE_WIDTH, PLATE_HEIGHT,
            PLATE_THICKNESS, LETTER_HEIGHT>>

plateState == <<letter_verts, stand_verts, plate_count, letter_count, stand_count>>

\* Bounds of the model.
MaxPoints == 8
MaxThickness == 2
MaxExtent == 2

(***************************************************************************)
(* Shared: the mesh-filling loop and the save.                             *)
(***************************************************************************)

\* numpy's vertices[k]: k in [-n, n) is valid and a negative k counts from the end.
IndexOk(k, n) == -n <= k /\ k < n

NumpyIndex(k, n) == IF k < 0 THEN k + n ELSE k

\* for i, face in enumerate(faces): for j in range(3): vectors[i][j] = vertices[face[j]]
FillFace ==
    /\ pc = "fill"
    /\ i < Len(faces)
    /\ LET face == faces[i + 1]
           n == Len(vertices)
       IN IF \A j \in 1..3 : IndexOk(face[j], n)
          THEN /\ mesh' = Append(mesh, [j \in 1..3 |-> vertices[NumpyIndex(face[j], n) + 1]])
               /\ i' = i + 1
               /\ pc' = pc
          ELSE /\ pc' = "IndexError"
               /\ UNCHANGED <<i, mesh>>
    /\ UNCHANGED <<params, vertices, faces, plateState>>

Save ==
    /\ pc = "fill"
    /\ i = Len(faces)
    /\ pc' = "done"
    /\ UNCHANGED <<params, i, vertices, faces, mesh, plateState>>

(***************************************************************************)
(* The heart script, src/tempCodeRunnerFile.py                             *)
(***************************************************************************)

\* [x[i], y[i], THICKNESS / 2], z doubled
TopVertex(k, t) == [kind |-> "ring", pt |-> k, z2 |-> t]

\* Variant: the bottom ring left at z = 0.
BottomVertexBadZ(k, t) == [kind |-> "ring", pt |-> k, z2 |-> 0]

\* [x[i], y[i], -THICKNESS / 2], z doubled
BottomVertex(k, t) == [kind |-> "ring", pt |-> k, z2 |-> -t]

\* [0, 0, THICKNESS / 2] and [0, 0, -THICKNESS / 2], z doubled
TopCenterVertex(t) == [kind |-> "centre", pt |-> 0, z2 |-> t]

BottomCenterVertex(t) == [kind |-> "centre", pt |-> 0, z2 |-> -t]

\* Variant: the successor without the wrap to 0.
NextINoWrap(k, n) == k + 1

\* next_i = (i + 1) % NUM_POINTS
NextI(k, n) == (k + 1) % n

top_center_idx == 2 * NUM_POINTS

\* Variant: the bottom centre index one too far.
bottom_center_idx_off == 2 * NUM_POINTS + 2

bottom_center_idx == 2 * NUM_POINTS + 1

SideFace1(k, n) == <<k, NextI(k, n), n + NextI(k, n)>>

SideFace2(k, n) == <<k, n + NextI(k, n), n + k>>

TopFace(k, n) == <<top_center_idx, k, NextI(k, n)>>

BottomFace(k, n) == <<bottom_center_idx, n + NextI(k, n), n + k>>

HeartStays == UNCHANGED <<params, plateState, mesh>>

HeartTopVertex ==
    /\ script = "heart" /\ pc = "top_verts" /\ i < NUM_POINTS
    /\ vertices' = Append(vertices, TopVertex(i, THICKNESS))
    /\ i' = i + 1
    /\ UNCHANGED <<pc, faces>> /\ HeartStays

HeartTopVerticesDone ==
    /\ script = "heart" /\ pc = "top_verts" /\ i = NUM_POINTS
    /\ pc' = "bottom_verts" /\ i' = 0
    /\ UNCHANGED <<vertices, faces>> /\ HeartStays

HeartBottomVertex ==
    /\ script = "heart" /\ pc = "bottom_verts" /\ i < NUM_POINTS
    /\ vertices' = Append(vertices, BottomVertex(i, THICKNESS))
    /\ i' = i + 1
    /\ UNCHANGED <<pc, faces>> /\ HeartStays

\* loop exit, then the two centre vertices (lines 27 and 29)
HeartCenters ==
    /\ script = "heart" /\ pc = "bottom_verts" /\ i = NUM_POINTS
    /\ vertices' = Append(Append(vertices, TopCenterVertex(THICKNESS)),
                          BottomCenterVertex(THICKNESS))
    /\ pc' = "side1" /\ i' = 0
    /\ UNCHANGED faces /\ HeartStays

HeartSideFace1 ==
    /\ script = "heart" /\ pc = "side1" /\ i < NUM_POINTS
    /\ faces' = Append(faces, SideFace1(i, NUM_POINTS))
    /\ pc' = "side2"
    /\ UNCHANGED <<i, vertices>> /\ HeartStays

HeartSideFace2 ==
    /\ script = "heart" /\ pc = "side2"
    /\ faces' = Append(faces, SideFace2(i, NUM_POINTS))
    /\ pc' = "side1" /\ i' = i + 1
    /\ UNCHANGED vertices /\ HeartStays

HeartSideDone ==
    /\ script = "heart" /\ pc = "side1" /\ i = NUM_POINTS
    /\ pc' = "top_fan" /\ i' = 0
    /\ UNCHANGED <<vertices, faces>> /\ HeartStays

HeartTopFan ==
    /\ script = "heart" /\ pc = "top_fan" /\ i < NUM_POINTS
    /\ faces' = Append(faces, TopFace(i, NUM_POINTS))
    /\ i' = i + 1
    /\ UNCHANGED <<pc, vertices>> /\ HeartStays

HeartTopFanDone ==
    /\ script = "heart" /\ pc = "top_fan" /\ i = NUM_POINTS
    /\ pc' = "bottom_fan" /\ i' = 0
    /\ UNCHANGED <<vertices, faces>> /\ HeartStays

HeartBottomFan ==
    /\ script = "heart" /\ pc = "bottom_fan" /\ i < NUM_POINTS
    /\ faces' = Append(faces, BottomFace(i, NUM_POINTS))
    /\ i' = i + 1
    /\ UNCHANGED <<pc, vertices>> /\ HeartStays

HeartBottomFanDone ==
    /\ script = "heart" /\ pc = "bottom_fan" /\ i = NUM_POINTS
    /\ pc' = "fill" /\ i' = 0
    /\ UNCHANGED <<vertices, faces>> /\ HeartStays

InitHeart ==
    /\ script = "heart" /\ pc = "top_verts" /\ i = 0
    /\ NUM_POINTS \in 0..MaxPoints
    /\ THICKNESS \in 1..MaxThickness
    /\ PLATE_WIDTH = 0 /\ PLATE_HEIGHT = 0 /\ PLATE_THICKNESS = 0 /\ LETTER_HEIGHT = 0
    /\ vertices = <<>> /\ faces = <<>> /\ mesh = <<>>
    /\ letter_verts = <<>> /\ stand_verts = <<>>
    /\ plate_count = 0 /\ letter_count = 0 /\ stand_count = 0

(***************************************************************************)
(* The nameplate script, src/test.py                                       *)
(***************************************************************************)

\* np.linspace(np.pi/2, 3*np.pi/2, 10) and np.linspace(3*np.pi/2, 5*np.pi/2, 10)
SCurveSamples == 10

\* np.linspace(-PLATE_WIDTH/2, PLATE_WIDTH/2, 8)
StandSamples == 8

\* The outline of S for letter number l: the top curve's samples, the middle
\* point, the bottom curve's samples, numbered in the order appended.
generate_letter_S(l) ==
    [k \in 1..(SCurveSamples + 1 + SCurveSamples) |-> [letter |-> l, pt |-> k - 1]]

\* The outline of A for letter number l: peak, left leg, two crossbar ends, right leg.
generate_letter_A(l) == [k \in 1..5 |-> [letter |-> l, pt |-> k - 1]]

\* The four corners (x, y), doubled.
plate_corners ==
    << <<-PLATE_WIDTH, -PLATE_HEIGHT>>, <<PLATE_WIDTH, -PLATE_HEIGHT>>,
       <<PLATE_WIDTH, PLATE_HEIGHT>>, <<-PLATE_WIDTH, PLATE_HEIGHT>> >>

\* The letter centres S, A, R, A, in units of letter_spacing / 2.
letter_centers_x == <<-3, -1, 1, 3>>

plate_start == 0

letter_start == plate_count

\* Variant: the offset the comment of line 120 documents, as a literal.
stand_start_documented == 88

stand_start == letter_start + letter_count

\* The two vertices of one letter point: base at z = PLATE_THICKNESS, top at
\* z = PLATE_THICKNESS + LETTER_HEIGHT.
LetterPointVerts(p) ==
    << [part |-> "letter", letter |-> p.letter, pt |-> p.pt, z |-> PLATE_THICKNESS],
       [part |-> "letter", letter |-> p.letter, pt |-> p.pt,
        z |-> PLATE_THICKNESS + LETTER_HEIGHT] >>

RECURSIVE LetterVerts(_)
LetterVerts(points) ==
    IF points = <<>> THEN <<>>
    ELSE LetterPointVerts(Head(points)) \o LetterVerts(Tail(points))

\* One iteration of the plate face loop: the four appends of lines 126-130.
PlateFaceGroup(k) ==
    LET next_i == (k + 1) % 4 IN
    << <<plate_start + 2*k, plate_start + 2*next_i, plate_start + 2*next_i + 1>>,
       <<plate_start + 2*k, plate_start + 2*next_i + 1, plate_start + 2*k + 1>>,
       <<plate_start + 2*k, plate_start + 2*k + 1, plate_start + 2*next_i + 1>>,
       <<plate_start + 2*k, plate_start + 2*next_i + 1, plate_start + 2*next_i>> >>

\* One iteration of the letter face loop: the four appends of lines 139-143.
LetterFaceGroup(k) ==
    LET v1 == letter_start + 2*k
        v2 == letter_start + 2*(k + 1)
        v3 == letter_start + 2*(k + 1) + 1
        v4 == letter_start + 2*k + 1
    IN << <<v1, v2, v3>>, <<v1, v3, v4>>,
          <<v1, v4, plate_start + 1>>, <<v1, plate_start + 1, v2>> >>

\* One iteration of the stand face loop: the four appends of lines 152-156.
StandFaceGroup(k) ==
    LET v1 == stand_start + 2*k
        v2 == stand_start + 2*(k + 1)
        v3 == stand_start + 2*(k + 1) + 1
        v4 == stand_start + 2*k + 1
    IN << <<v1, v2, v3>>, <<v1, v3, v4>>,
          <<v4, v3, plate_start + 1>>, <<v4, plate_start + 1, plate_start + 3>> >>

\* range(len(letter_verts)//2 - 1)
LetterLoopCount == Len(letter_verts) \div 2 - 1

\* range(len(stand_verts)//2 - 1)
StandLoopCount == Len(stand_verts) \div 2 - 1

PlateParams == UNCHANGED <<params, mesh>>

PlateCorner ==
    /\ script = "nameplate" /\ pc = "plate_verts" /\ i < Len(plate_corners)
    /\ LET c == plate_corners[i + 1] IN
       vertices' = vertices \o
           << [part |-> "plate", pt |-> i, x2 |-> c[1], y2 |-> c[2], z |-> 0],
              [part |-> "plate", pt |-> i, x2 |-> c[1], y2 |-> c[2],
               z |-> PLATE_THICKNESS] >>
    /\ i' = i + 1
    /\ UNCHANGED <<pc, faces, plateState>> /\ PlateParams

PlateCornersDone ==
    /\ script = "nameplate" /\ pc = "plate_verts" /\ i = Len(plate_corners)
    /\ plate_count' = Len(vertices)
    /\ pc' = "letters" /\ i' = 0
    /\ UNCHANGED <<vertices, faces, letter_verts, stand_verts, letter_count, stand_count>>
    /\ PlateParams

\* One iteration of `for i, cx in enumerate(letter_centers_x)`.
Letter ==
    /\ script = "nameplate" /\ pc = "letters" /\ i < Len(letter_centers_x)
    /\ LET letter_points == IF i = 0 THEN generate_letter_S(i) ELSE generate_letter_A(i)
       IN letter_verts' = letter_verts \o LetterVerts(letter_points)
    /\ i' = i + 1
    /\ UNCHANGED <<pc, vertices, faces, stand_verts, plate_count, letter_count, stand_count>>
    /\ PlateParams

LettersDone ==
    /\ script = "nameplate" /\ pc = "letters" /\ i = Len(letter_centers_x)
    /\ vertices' = vertices \o letter_verts
    /\ letter_count' = Len(letter_verts)
    /\ pc' = "stand" /\ i' = 0
    /\ UNCHANGED <<faces, letter_verts, stand_verts, plate_count, stand_count>>
    /\ PlateParams

\* One iteration of `for x in stand_bottom_x`.
StandPoint ==
    /\ script = "nameplate" /\ pc = "stand" /\ i < StandSamples
    /\ stand_verts' = stand_verts \o
           << [part |-> "stand", pt |-> i, row |-> "bottom", z |-> 0],
              [part |-> "stand", pt |-> i, row |-> "top", z |-> PLATE_THICKNESS] >>
    /\ i' = i + 1
    /\ UNCHANGED <<pc, vertices, faces, letter_verts, plate_count, letter_count, stand_count>>
    /\ PlateParams

StandDone ==
    /\ script = "nameplate" /\ pc = "stand" /\ i = StandSamples
    /\ vertices' = vertices \o stand_verts
    /\ stand_count' = Len(stand_verts)
    /\ pc' = "plate_faces" /\ i' = 0
    /\ UNCHANGED <<faces, letter_verts, stand_verts, plate_count, letter_count>>
    /\ PlateParams

PlateFaces ==
    /\ script = "nameplate" /\ pc = "plate_faces" /\ i < 4
    /\ faces' = faces \o PlateFaceGroup(i)
    /\ i' = i + 1
    /\ UNCHANGED <<pc, vertices, plateState>> /\ PlateParams

PlateFacesDone ==
    /\ script = "nameplate" /\ pc = "plate_faces" /\ i = 4
    /\ pc' = "letter_faces" /\ i' = 0
    /\ UNCHANGED <<vertices, faces, plateState>> /\ PlateParams

LetterFaces ==
    /\ script = "nameplate" /\ pc = "letter_faces" /\ i < LetterLoopCount
    /\ faces' = faces \o LetterFaceGroup(i)
    /\ i' = i + 1
    /\ UNCHANGED <<pc, vertices, plateState>> /\ PlateParams

LetterFacesDone ==
    /\ script = "nameplate" /\ pc = "letter_faces" /\ i >= LetterLoopCount
    /\ pc' = "stand_faces" /\ i' = 0
    /\ UNCHANGED <<vertices, faces, plateState>> /\ PlateParams

StandFaces ==
    /\ script = "nameplate" /\ pc = "stand_faces" /\ i < StandLoopCount
    /\ faces' = faces \o StandFaceGroup(i)
    /\ i' = i + 1
    /\ UNCHANGED <<pc, vertices, plateState>> /\ PlateParams

StandFacesDone ==
    /\ script = "nameplate" /\ pc = "stand_faces" /\ i >= StandLoopCount
    /\ pc' = "fill" /\ i' = 0
    /\ UNCHANGED <<vertices, faces, plateState>> /\ PlateParams

InitPlate ==
    /\ script = "nameplate" /\ pc = "plate_verts" /\ i = 0
    /\ NUM_POINTS = 0 /\ THICKNESS = 0
    /\ PLATE_WIDTH \in 1..MaxExtent
    /\ PLATE_HEIGHT \in 1..MaxExtent
    /\ PLATE_THICKNESS \in 1..MaxExtent
    /\ LETTER_HEIGHT \in 1..MaxExtent
    /\ vertices = <<>> /\ faces = <<>> /\ mesh = <<>>
    /\ letter_verts = <<>> /\ stand_verts = <<>>
    /\ plate_count = 0 /\ letter_count = 0 /\ stand_count = 0

(***************************************************************************)
(* The specification: either script, from its first line to its save.      *)
(***************************************************************************)

Init == InitHeart \/ InitPlate

Next ==
    \/ HeartTopVertex \/ HeartTopVerticesDone \/ HeartBottomVertex \/ HeartCenters
    \/ HeartSideFace1 \/ HeartSideFace2 \/ HeartSideDone
    \/ HeartTopFan \/ HeartTopFanDone \/ HeartBottomFan \/ HeartBottomFanDone
    \/ PlateCorner \/ PlateCornersDone \/ Letter \/ LettersDone
    \/ StandPoint \/ StandDone
    \/ PlateFaces \/ PlateFacesDone \/ LetterFaces \/ LetterFacesDone
    \/ StandFaces \/ StandFacesDone
    \/ FillFace \/ Save

Spec == Init /\ [][Next]_vars

(***************************************************************************)
(* Properties                                                              *)
(***************************************************************************)

FaceIdx(f) == {f[1], f[2], f[3]}

\* The undirected and the directed edges of a face, in its cyclic vertex order.
UEdges(f) == {{f[1], f[2]}, {f[2], f[3]}, {f[3], f[1]}}

DEdges(f) == {<<f[1], f[2]>>, <<f[2], f[3]>>, <<f[3], f[1]>>}

HeartDone == script = "heart" /\ pc = "done"

PlateDone == script = "nameplate" /\ pc = "done"

\* The faces are being built or are built: the vertex list is complete.
FacePhase ==
    pc \in {"side1", "side2", "top_fan", "bottom_fan", "plate_faces", "letter_faces",
            "stand_faces", "fill", "done", "IndexError"}

\* C1: heart, NUM_POINTS >= 1: after every append to `faces` and at the end, every
\* index of every face is >= 0 and below the vertex count 2*NUM_POINTS + 2, and the
\* lookup vertices[face[j]] of the filling loop never raises IndexError.
C1_HeartFaceIndicesInRange ==
    (script = "heart" /\ NUM_POINTS >= 1 /\ FacePhase) =>
        /\ Len(vertices) = 2 * NUM_POINTS + 2
        /\ \A k \in DOMAIN faces : \A j \in 1..3 :
               0 <= faces[k][j] /\ faces[k][j] < Len(vertices)
        /\ pc # "IndexError"

\* The heart is saved with every face filled, the last vertex index in use.
C1_Witness ==
    /\ HeartDone /\ NUM_POINTS >= 1
    /\ Len(mesh) = Len(faces)
    /\ \E k \in DOMAIN faces : 2 * NUM_POINTS + 1 \in FaceIdx(faces[k])

\* Positions in `faces` by the loop that appended them (nameplate).
PlateFacePos == 1..16

LetterFacePos == {k \in DOMAIN faces : 16 < k /\ k <= 16 + 4 * LetterLoopCount}

StandFacePos == {k \in DOMAIN faces : k > 16 + 4 * LetterLoopCount}

\* C2: nameplate: with the three vertex lists concatenated, no face references an
\* index >= the total vertex count or < 0; the largest letter-face index is below
\* stand_start + stand_count, the largest stand-face index is at most the last
\* vertex index, and the filling loop never raises IndexError.
C2_PlateFaceIndicesInRange ==
    (script = "nameplate" /\ FacePhase) =>
        /\ Len(vertices) = plate_count + letter_count + stand_count
        /\ \A k \in DOMAIN faces : \A j \in 1..3 :
               0 <= faces[k][j] /\ faces[k][j] < Len(vertices)
        /\ \A k \in LetterFacePos : \A j \in 1..3 :
               faces[k][j] < stand_start + stand_count
        /\ \A k \in StandFacePos : \A j \in 1..3 :
               faces[k][j] <= Len(vertices) - 1
        /\ pc # "IndexError"

\* The nameplate is saved with every face filled; a stand face uses the last vertex.
C2_Witness ==
    /\ PlateDone
    /\ Len(mesh) = Len(faces)
    /\ LetterFacePos # {}
    /\ \E k \in StandFacePos : Len(vertices) - 1 \in FaceIdx(faces[k])

\* The six sides of the plate's box, as predicates on a plate vertex.
OnSide(v, side) ==
    CASE side = "bottom" -> v.z = 0
      [] side = "top" -> v.z = PLATE_THICKNESS
      [] side = "left" -> v.x2 = -PLATE_WIDTH
      [] side = "right" -> v.x2 = PLATE_WIDTH
      [] side = "front" -> v.y2 = -PLATE_HEIGHT
      [] side = "back" -> v.y2 = PLATE_HEIGHT

BoxSides == {"bottom", "top", "left", "right", "front", "back"}

\* The plate's faces: those of `faces` whose three vertices are plate vertices.
PlateFaceSet ==
    {k \in DOMAIN faces : \A j \in 1..3 : vertices[faces[k][j] + 1].part = "plate"}

AfterPlateFaces == script = "nameplate" /\ pc \in {"letter_faces", "stand_faces", "fill", "done"}

\* C3: the plate has exactly 8 vertices and exactly 12 triangles, 2 in each of the 6
\* sides of the box (bottom z = 0, top z = PLATE_THICKNESS, the four walls).
C3_PlateIsBox ==
    AfterPlateFaces =>
        /\ plate_count = 8
        /\ Cardinality(PlateFaceSet) = 12
        /\ \A side \in BoxSides :
               Cardinality({k \in PlateFaceSet :
                   \A j \in 1..3 : OnSide(vertices[faces[k][j] + 1], side)}) = 2

\* det(v0, v1, v2) of a face of plate vertices, with x and y doubled: 4 times the
\* determinant of the real coordinates.
Det4(a, b, c) ==
      a.x2 * (b.y2 * c.z - b.z * c.y2)
    - a.y2 * (b.x2 * c.z - b.z * c.x2)
    + a.z * (b.x2 * c.y2 - b.y2 * c.x2)

RECURSIVE SumDet4(_)
\* The sum of Det4 over the plate faces among the first n faces.
SumDet4(n) ==
    IF n = 0 THEN 0
    ELSE SumDet4(n - 1) +
         (IF n \in PlateFaceSet
          THEN Det4(vertices[faces[n][1] + 1], vertices[faces[n][2] + 1],
                    vertices[faces[n][3] + 1])
          ELSE 0)

\* C4: the signed volume of the plate's faces, sum of det(v0,v1,v2)/6, equals
\* PLATE_WIDTH * PLATE_HEIGHT * PLATE_THICKNESS (both sides times 24).
C4_PlateVolume ==
    AfterPlateFaces =>
        SumDet4(Len(faces)) = 24 * PLATE_WIDTH * PLATE_HEIGHT * PLATE_THICKNESS

WithIdx(k) == {m \in DOMAIN faces : k \in FaceIdx(faces[m])}

\* C5: heart, NUM_POINTS >= 3: 2N side-wall triangles, N top-fan and N bottom-fan
\* triangles, 4N faces over 2N+2 vertices, and every vertex's z is z0 or
\* z0 + THICKNESS with z0 = -THICKNESS/2 (z doubled: -THICKNESS or -THICKNESS + 2*THICKNESS).
C5_HeartCountsAndLevels ==
    (HeartDone /\ NUM_POINTS >= 3) =>
        /\ Len(vertices) = 2 * NUM_POINTS + 2
        /\ Len(faces) = 4 * NUM_POINTS
        /\ Len(mesh) = 4 * NUM_POINTS
        /\ Cardinality(WithIdx(top_center_idx)) = NUM_POINTS
        /\ Cardinality(WithIdx(bottom_center_idx)) = NUM_POINTS
        /\ Cardinality(DOMAIN faces \ (WithIdx(top_center_idx) \cup WithIdx(bottom_center_idx)))
               = 2 * NUM_POINTS
        /\ \A k \in DOMAIN vertices :
               vertices[k].z2 \in {-THICKNESS, -THICKNESS + 2 * THICKNESS}
        /\ \A m \in DOMAIN mesh : \A j \in 1..3 :
               mesh[m][j].z2 \in {-THICKNESS, -THICKNESS + 2 * THICKNESS}

\* A finished heart of at least 3 points with vertices on both levels.
C5_Witness ==
    /\ HeartDone /\ NUM_POINTS >= 3
    /\ \E k \in DOMAIN vertices : vertices[k].z2 = -THICKNESS
    /\ \E k \in DOMAIN vertices : vertices[k].z2 = THICKNESS

\* C6: heart, NUM_POINTS in {0, 1, 2}: no cap faces, i.e. no face references the
\* top-centre index 2*NUM_POINTS or the bottom-centre index 2*NUM_POINTS + 1.
C6_NoCapsBelowThree ==
    (HeartDone /\ NUM_POINTS < 3) =>
        WithIdx(top_center_idx) = {} /\ WithIdx(bottom_center_idx) = {}

\* C7: heart, NUM_POINTS >= 3: the final mesh is closed: every undirected edge of a
\* face occurs in exactly two faces, and no face repeats a vertex index.
C7_HeartClosed ==
    (HeartDone /\ NUM_POINTS >= 3) =>
        \A k \in DOMAIN faces :
            /\ Cardinality(FaceIdx(faces[k])) = 3
            /\ \A e \in UEdges(faces[k]) :
                   Cardinality({m \in DOMAIN faces : e \in UEdges(faces[m])}) = 2

\* A finished heart of at least 3 points whose outline edge {0, 1} is shared by a
\* side wall and a top-fan triangle.
C7_Witness ==
    /\ HeartDone /\ NUM_POINTS >= 3
    /\ \E k \in WithIdx(top_center_idx) : {0, 1} \in UEdges(faces[k])
    /\ \E k \in DOMAIN faces \ WithIdx(top_center_idx) : {0, 1} \in UEdges(faces[k])

\* The letter points a face touches, as <<letter, pt>>.
LetterPointsOf(f) ==
    {<<vertices[f[j] + 1].letter, vertices[f[j] + 1].pt>> :
        j \in {j \in 1..3 : vertices[f[j] + 1].part = "letter"}}

\* The number of outline points of letter l.
OutlineLen(l) == IF l = 0 THEN Len(generate_letter_S(l)) ELSE Len(generate_letter_A(l))

\* C8: nameplate: the letter side walls pair consecutive perimeter points of the same
\* letter, the closing pair (last point, first point) included, and no letter face
\* pairs a point of one letter with a point of another.
C8_LettersWalledIndependently ==
    PlateDone =>
        /\ \A l \in 0..(Len(letter_centers_x) - 1) : \A p \in 0..(OutlineLen(l) - 1) :
               \E k \in DOMAIN faces :
                   {<<l, p>>, <<l, (p + 1) % OutlineLen(l)>>} \subseteq LetterPointsOf(faces[k])
        /\ \A k \in DOMAIN faces : \A a, b \in LetterPointsOf(faces[k]) : a[1] = b[1]

\* C9: nameplate bookkeeping as documented: plate 8, letters 80, stand 16 vertices,
\* 104 in all, letter_start = 8, stand_start = 88.
C9_DocumentedCounts ==
    PlateDone =>
        /\ plate_count = 8 /\ letter_count = 80 /\ stand_count = 16
        /\ Len(vertices) = 104
        /\ letter_start = 8 /\ stand_start = 88

\* C10: heart, NUM_POINTS >= 3: no directed edge a -> b occurs in more than one face.
C10_HeartWindingConsistent ==
    (HeartDone /\ NUM_POINTS >= 3) =>
        \A k, m \in DOMAIN faces : k # m => DEdges(faces[k]) \cap DEdges(faces[m]) = {}

====
